---- MODULE Spec2Model ----
(***************************************************************************)
(* Lumi agent: the LangGraph run (router -> rag/tool/response -> END), the *)
(* non-streaming chat endpoint and the SSE streaming endpoint that merges  *)
(* the "updates" and "messages" stream modes and keeps SESSION_STORE, two   *)
(* streaming requests interleaved on the event loop, and the ToolExecutor  *)
(* with its schedule / fan letter repositories.                            *)
(***************************************************************************)
EXTENDS Naturals, Sequences, FiniteSets, TLC

None == "None"

(* ---------------------------------------------------------------- bounds *)
\* "messages"-mode events one graph run emits
MaxToks == 3

(* ---------------------------------------------------------------- inputs *)
Procs == {1, 2}
\* the one request handler of the sequential specification
Solo == {1}
SessionIds == {"s1", "s2"}
UserTexts == {"q"}
\* content of one AIMessageChunk of the response node
Fragments == {"", "a", "b"}
\* content of a chunk of any other node (the router's classification call)
AuxFragments == {"b"}
Intents == {"chat", "rag", "tool"}
ToolNames == {"get_schedule", "unknown_tool"}
DocSets == {<<>>, <<"d">>}
ToolArgs == {"args"}
ToolResults == {"envelope"}
FallbackReply == "sorry"

(* ------------------------------------------------------------- messages *)
HumanMessage(c) == [type |-> "human", content |-> c]
AIMessage(c) == [type |-> "ai", content |-> c]
AIMessageChunk(c) == [type |-> "AIMessageChunk", content |-> c]

\* isinstance(msg, AIMessageChunk)
IsChunk(msg) == msg.type = "AIMessageChunk"

\* Python truthiness of a str | None slot
Truthy(x) == x # None /\ x # ""

\* Python truthiness of a dict | None node output (None is kept as the empty dict)
TruthyDict(d) == DOMAIN d # {}

\* dict.get(key) with the default None
Get(d, k) == IF k \in DOMAIN d THEN d[k] ELSE None

EmptyDict == [k \in {} |-> None]

(* ---------------------------------------------------------------- state *)
VARIABLES
    SESSION_STORE,    \* dict[str, list[BaseMessage]]
    compiled_graph,   \* the module-level singleton _compiled_graph
    req,              \* per handler: the request and the locals of the endpoint
    gr,               \* per handler: the graph run (Pregel loop) it awaits
    out,              \* per handler: the SSE events / HTTP response produced
    completed,        \* per session: streaming runs whose astream ended normally
    tcall,            \* the ToolExecutor.execute coroutine in flight
    tlog,             \* the execute calls that finished, in order
    fan_letters       \* the rows of the fan_letters table

vars == <<SESSION_STORE, compiled_graph, req, gr, out, completed,
          tcall, tlog, fan_letters>>

\* the state of app/api/routes/chat.py and of the graph runs
chat_vars == <<SESSION_STORE, compiled_graph, req, gr, out, completed>>

\* the state of app/tools/executor.py and its repositories
tool_vars == <<tcall, tlog, fan_letters>>

(* ------------------------------------------------- graph (graph.py) ---- *)
START == "__start__"
END == "__end__"
RoutingError == "__routing_error__"

\* builder.add_node(...)
Nodes == {"router", "rag", "tool", "response"}

\* the conditional edge's path function: intent -> key of the path map;
\* an unset intent has no routing edge
route_by_intent(state) ==
    CASE state.intent = "rag" -> "rag"
      [] state.intent = "tool" -> "tool"
      [] state.intent = "chat" -> "response"
      [] OTHER -> RoutingError

\* path_map of add_conditional_edges(source="router", ...)
path_map == [rag |-> "rag", tool |-> "tool", response |-> "response"]

\* Edge without add_edge("tool", "response"): the tool node ends the run
EdgeToolToEnd(node) ==
    CASE node = START -> "router"
      [] node = "rag" -> "response"
      [] node = "tool" -> END
      [] node = "response" -> END

\* Edge with rag wired to tool instead of response
EdgeRagToTool(node) ==
    CASE node = START -> "router"
      [] node = "rag" -> "tool"
      [] node = "tool" -> "response"
      [] node = "response" -> END

\* builder.add_edge(...): the unconditional edges
Edge(node) ==
    CASE node = START -> "router"
      [] node = "rag" -> "response"
      [] node = "tool" -> "response"
      [] node = "response" -> END

\* the conditional edge sending a state it has no route for to response
NextNodeDefaultResponse(node, state) ==
    IF node = "router"
    THEN LET key == route_by_intent(state)
         IN IF key \in DOMAIN path_map THEN path_map[key] ELSE "response"
    ELSE Edge(node)

\* the node the compiled graph runs after `node`, given the state `node` left
NextNode(node, state) ==
    IF node = "router"
    THEN LET key == route_by_intent(state)
         IN IF key \in DOMAIN path_map THEN path_map[key] ELSE RoutingError
    ELSE Edge(node)

(* --------------------------------------------- state (state.py) -------- *)
\* messages without its reducer: the update overwrites the list
overwrite_messages(left, right) == right

\* a reducer putting the new messages in front of the list
prepend_messages(left, right) == right \o left

\* the add_messages reducer: new messages go to the end of the list
add_messages(left, right) == left \o right

StateKeys == {"messages", "intent", "retrieved_docs", "tool_name", "tool_args",
              "tool_result", "session_id", "user_id"}

\* a node's partial update applied channel by channel: messages through its
\* reducer, every other key overwritten
ApplyUpdate(state, upd) ==
    [k \in StateKeys |->
        IF k \in DOMAIN upd
        THEN IF k = "messages" THEN add_messages(state[k], upd[k]) ELSE upd[k]
        ELSE state[k]]

\* the dict both endpoints pass to the graph
InitialState(messages, session_id, user_id) ==
    [messages |-> messages, intent |-> None, retrieved_docs |-> <<>>,
     tool_name |-> None, tool_args |-> None, tool_result |-> None,
     session_id |-> session_id, user_id |-> user_id]

(* ------------------------------------- nodes and the astream producer -- *)
\* one item of graph.astream(..., stream_mode=["updates", "messages"])
MessagesEvent(msg, node) == [mode |-> "messages", msg |-> msg, node |-> node]
UpdatesEvent(node, output) == [mode |-> "updates", node |-> node, output |-> output]

RECURSIVE Generated(_)
\* the text the response node's model call has produced: its chunks, in order
Generated(src) ==
    IF src = <<>> THEN ""
    ELSE LET ev == src[Len(src)]
             rest == Generated(SubSeq(src, 1, Len(src) - 1))
         IN IF ev.mode = "messages" /\ ev.node = "response" /\ IsChunk(ev.msg)
            THEN rest \o ev.msg.content
            ELSE rest

RECURSIVE CountMessages(_)
CountMessages(src) ==
    IF src = <<>> THEN 0
    ELSE CountMessages(Tail(src)) + (IF Head(src).mode = "messages" THEN 1 ELSE 0)

\* Responder always appends one non-empty assistant message: what the model
\* call generated, or a failure-acknowledging reply when it generated nothing
Reply(src) == IF Generated(src) # "" THEN Generated(src) ELSE FallbackReply

\* Router: sets intent (and may already bind the tool call); may leave it unset
router_node(state) ==
    {[intent |-> i] : i \in Intents \cup {None}}
    \cup {[intent |-> "tool", tool_name |-> t, tool_args |-> a] :
            t \in ToolNames, a \in ToolArgs}

\* Retriever: best effort, possibly no documents; messages untouched
rag_node(state) == {[retrieved_docs |-> d] : d \in DocSets}

\* ToolRunner: resolves the call unless Router did, and sets tool_result
tool_node(state) ==
    IF state.tool_name # None
    THEN {[tool_result |-> r] : r \in ToolResults}
    ELSE {[tool_name |-> t, tool_args |-> a, tool_result |-> r] :
            t \in ToolNames, a \in ToolArgs, r \in ToolResults}

\* Responder: exactly one assistant message
response_node(state, src) == {[messages |-> <<AIMessage(Reply(src))>>]}

NodeOutputs(node, state, src) ==
    CASE node = "router" -> router_node(state)
      [] node = "rag" -> rag_node(state)
      [] node = "tool" -> tool_node(state)
      [] node = "response" -> response_node(state, src)

\* the chunks a node's model call may stream
NodeFragments(node) ==
    CASE node = "response" -> Fragments
      [] node \in {"router", "tool"} -> AuxFragments
      [] OTHER -> {}

\* the events a finishing node puts on the stream: a message it returns that
\* was never streamed is emitted whole (not as a chunk), then its update
CompletionEvents(node, output, src) ==
    (IF node = "response" /\ Generated(src) = ""
     THEN <<MessagesEvent(output.messages[1], node)>> ELSE <<>>)
    \o <<UpdatesEvent(node, output)>>

\* a graph run that has just been started on `initial_state`
NewRun(initial_state) ==
    [node |-> Edge(START), state |-> initial_state, src |-> <<>>,
     path |-> <<Edge(START)>>]

IdleRun == [node |-> END, state |-> InitialState(<<>>, None, None), src |-> <<>>,
            path |-> <<>>]

\* the run after its current node returned `output` and the edges were followed
AfterNode(g, output) ==
    LET st == ApplyUpdate(g.state, output)
        nxt == NextNode(g.node, st)
    IN [node |-> nxt, state |-> st,
        src |-> g.src \o CompletionEvents(g.node, output, g.src),
        path |-> IF nxt \in Nodes THEN Append(g.path, nxt) ELSE g.path]

RECURSIVE RunResult(_, _)
\* graph.ainvoke: the initial state with every node's update applied in order
RunResult(initial_state, src) ==
    IF src = <<>> THEN initial_state
    ELSE LET ev == src[Len(src)]
             before == RunResult(initial_state, SubSeq(src, 1, Len(src) - 1))
         IN IF ev.mode = "updates" THEN ApplyUpdate(before, ev.output) ELSE before

\* what the next pull on the run can yield: a chunk of the running node ...
TokenSteps(g) ==
    IF g.node \in Nodes /\ CountMessages(g.src) < MaxToks
    THEN {[g |-> [g EXCEPT !.src = Append(@, MessagesEvent(AIMessageChunk(f), g.node))],
           evs |-> <<MessagesEvent(AIMessageChunk(f), g.node)>>] :
            f \in NodeFragments(g.node)}
    ELSE {}

\* ... or the running node's completion, when its output can be routed on
NodeSteps(g) ==
    IF g.node \in Nodes
    THEN {[g |-> AfterNode(g, o), evs |-> CompletionEvents(g.node, o, g.src)] :
            o \in {x \in NodeOutputs(g.node, g.state, g.src) :
                     NextNode(g.node, ApplyUpdate(g.state, x)) # RoutingError}}
    ELSE {}

\* ... or an exception: a collaborator failing inside a node at any point, or
\* the conditional edge finding no route for the state Router left
RunFaults(g) ==
    {"upstream failure"}
    \cup {"no route" : o \in {x \in (IF g.node \in Nodes
                                       THEN NodeOutputs(g.node, g.state, g.src)
                                       ELSE {}) :
                             NextNode(g.node, ApplyUpdate(g.state, x)) = RoutingError}}

RECURSIVE PartialRuns(_)
\* every point a run started at `g` can get to
PartialRuns(g) ==
    {g} \cup UNION {PartialRuns(s.g) : s \in TokenSteps(g) \cup NodeSteps(g)}

\* the runs started at `g` that reached END
CompleteRuns(g) == {r \in PartialRuns(g) : r.node = END}

(* ---------------------------------- graph singleton (graph.py 119-138) -- *)
\* get_lumi_graph building a new graph on every call
get_lumi_graph_rebuild(current) ==
    IF current = None THEN "compiled" ELSE current \o "+"

\* get_lumi_graph: compile on first use, then reuse
get_lumi_graph(current) == IF current = None THEN "compiled" ELSE current

(* ------------------------------------- endpoints (chat.py) ------------- *)
\* the locals of a handler that serves no request
IdleReq ==
    [pc |-> "idle", mode |-> None, session_id |-> None, user_id |-> None,
     new_message |-> HumanMessage(""), history |-> <<>>,
     initial_state |-> InitialState(<<>>, None, None),
     final_response |-> "", final_tool_name |-> None, current_node |-> None,
     graph |-> None]

\* node name -> progress label
node_status ==
    [router |-> "thinking", rag |-> "searching", tool |-> "running tool",
     response |-> "writing"]

\* SESSION_STORE.get(session_id, [])
StoreGet(store, session_id) ==
    IF session_id \in DOMAIN store THEN store[session_id] ELSE <<>>

\* session_id or "default"
ResolveSession(session_id) == IF session_id = "" THEN "default" ELSE session_id

\* one tuple yielded by stream_with_status
Yield(status, token, final, tool_used) ==
    [status |-> status, token |-> token, final |-> final, tool_used |-> tool_used]

\* the updates branch never recording the node it reported
OnUpdatesNoCurrent(loc, ev) ==
    LET enter == ev.node # loc.current_node /\ ev.node \in DOMAIN node_status
        l2 == IF ev.node = "tool" /\ TruthyDict(ev.output)
              THEN [loc EXCEPT !.final_tool_name = Get(ev.output, "tool_name")]
              ELSE loc
    IN [loc |-> l2,
        yields |-> IF enter THEN <<Yield(node_status[ev.node], None, None, None)>>
                   ELSE <<>>]

\* the body of the loop for mode == "updates"
OnUpdates(loc, ev) ==
    LET enter == ev.node # loc.current_node /\ ev.node \in DOMAIN node_status
        l1 == IF enter THEN [loc EXCEPT !.current_node = ev.node] ELSE loc
        l2 == IF ev.node = "tool" /\ TruthyDict(ev.output)
              THEN [l1 EXCEPT !.final_tool_name = Get(ev.output, "tool_name")]
              ELSE l1
    IN [loc |-> l2,
        yields |-> IF enter THEN <<Yield(node_status[ev.node], None, None, None)>>
                   ELSE <<>>]

\* the messages branch yielding the running text along with each token
OnMessagesRunningFinal(loc, ev) ==
    IF ev.node # "response" THEN [loc |-> loc, yields |-> <<>>]
    ELSE IF IsChunk(ev.msg) /\ ev.msg.content # ""
         THEN [loc |-> [loc EXCEPT !.final_response = @ \o ev.msg.content],
               yields |-> <<Yield(None, ev.msg.content,
                                  loc.final_response \o ev.msg.content, None)>>]
         ELSE [loc |-> loc, yields |-> <<>>]

\* the messages branch filtering out only the router's tokens
OnMessagesNotRouter(loc, ev) ==
    IF ev.node = "router" THEN [loc |-> loc, yields |-> <<>>]
    ELSE IF IsChunk(ev.msg) /\ ev.msg.content # ""
         THEN [loc |-> [loc EXCEPT !.final_response = @ \o ev.msg.content],
               yields |-> <<Yield(None, ev.msg.content, None, None)>>]
         ELSE [loc |-> loc, yields |-> <<>>]

\* the messages branch appending each token in front of the text
OnMessagesPrepend(loc, ev) ==
    IF ev.node # "response" THEN [loc |-> loc, yields |-> <<>>]
    ELSE IF IsChunk(ev.msg) /\ ev.msg.content # ""
         THEN [loc |-> [loc EXCEPT !.final_response = ev.msg.content \o @],
               yields |-> <<Yield(None, ev.msg.content, None, None)>>]
         ELSE [loc |-> loc, yields |-> <<>>]

\* the messages branch without the isinstance(msg, AIMessageChunk) test
OnMessagesAnyMessage(loc, ev) ==
    IF ev.node # "response" THEN [loc |-> loc, yields |-> <<>>]
    ELSE IF ev.msg.content # ""
         THEN [loc |-> [loc EXCEPT !.final_response = @ \o ev.msg.content],
               yields |-> <<Yield(None, ev.msg.content, None, None)>>]
         ELSE [loc |-> loc, yields |-> <<>>]

\* the body of the loop for mode == "messages"
OnMessages(loc, ev) ==
    IF ev.node # "response" THEN [loc |-> loc, yields |-> <<>>]
    ELSE IF IsChunk(ev.msg) /\ ev.msg.content # ""
         THEN [loc |-> [loc EXCEPT !.final_response = @ \o ev.msg.content],
               yields |-> <<Yield(None, ev.msg.content, None, None)>>]
         ELSE [loc |-> loc, yields |-> <<>>]

\* one iteration of the async for loop of stream_with_status
OnEvent(loc, ev) ==
    IF ev.mode = "updates" THEN OnUpdates(loc, ev) ELSE OnMessages(loc, ev)

RECURSIVE OnEvents(_, _)
OnEvents(loc, evs) ==
    IF evs = <<>> THEN [loc |-> loc, yields |-> <<>>]
    ELSE LET first == OnEvent(loc, Head(evs))
             rest == OnEvents(first.loc, Tail(evs))
         IN [loc |-> rest.loc, yields |-> first.yields \o rest.yields]

StreamEvent(type, content, tool_used, error) ==
    [type |-> type, content |-> content, tool_used |-> tool_used, error |-> error]

\* the body of the loop of generate(): the SSE events for one yielded tuple
Emit(y) ==
    (IF Truthy(y.status) THEN <<StreamEvent("thinking", y.status, None, None)>> ELSE <<>>)
    \o (IF Truthy(y.token) THEN <<StreamEvent("token", y.token, None, None)>> ELSE <<>>)
    \o (IF Truthy(y.final) THEN <<StreamEvent("response", y.final, y.tool_used, None)>>
        ELSE <<>>)

RECURSIVE EmitAll(_)
EmitAll(ys) == IF ys = <<>> THEN <<>> ELSE Emit(Head(ys)) \o EmitAll(Tail(ys))

\* the except branch without its closing done event
OnExceptionNoDone(e) == <<StreamEvent("error", None, None, e)>>

\* the except branch also emitting a final event before it ends the stream
OnExceptionWithFinal(e) ==
    <<StreamEvent("error", None, None, e), StreamEvent("response", e, None, None),
      StreamEvent("done", None, None, None)>>

\* the except branch of generate()
OnException(e) ==
    <<StreamEvent("error", None, None, e), StreamEvent("done", None, None, None)>>

\* the save block appending the user message only (the reply left for later)
SaveTurnUserOnly(store, loc) ==
    IF loc.final_response # ""
    THEN LET sid == loc.session_id
             cur == IF sid \in DOMAIN store THEN store[sid] ELSE <<>>
         IN [k \in DOMAIN store \cup {sid} |->
                IF k = sid THEN Append(cur, loc.new_message) ELSE store[k]]
    ELSE store

\* the save block without its `if final_response:` test
SaveTurnAlways(store, loc) ==
    LET sid == loc.session_id
        cur == IF sid \in DOMAIN store THEN store[sid] ELSE <<>>
    IN [k \in DOMAIN store \cup {sid} |->
           IF k = sid
           THEN cur \o <<loc.new_message, AIMessage(loc.final_response)>>
           ELSE store[k]]

\* the store after the "save to session history" block of stream_with_status
SaveTurn(store, loc) ==
    IF loc.final_response # ""
    THEN LET sid == loc.session_id
             cur == IF sid \in DOMAIN store THEN store[sid] ELSE <<>>
         IN [k \in DOMAIN store \cup {sid} |->
                IF k = sid
                THEN cur \o <<loc.new_message, AIMessage(loc.final_response)>>
                ELSE store[k]]
    ELSE store

(* ------------------------------ ToolExecutor (tools/executor.py) ------- *)
\* no execute call in flight
IdleCall ==
    [pc |-> "idle", tool_name |-> None, tool_args |-> EmptyDict,
     session_id |-> None, user_id |-> None, attempts |-> 0]

Song(title, album) == [title |-> title, album |-> album]

\* the mock song table: mood -> songs
LUMI_SONGS ==
    [happy |-> <<Song("Shine Bright", "First Light"), Song("Happy Day", "Luminous"),
                 Song("Dancing Star", "First Light")>>,
     sad |-> <<Song("Rainy Day", "Moonlight"), Song("Missing You", "Luminous")>>,
     energetic |-> <<Song("Power Up", "Energy"), Song("Let's Go!", "First Light"),
                     Song("On Fire", "Energy")>>,
     calm |-> <<Song("Starlight", "Moonlight"), Song("Peaceful Night", "Moonlight")>>,
     romantic |-> <<Song("First Love", "Luminous"), Song("Heart Beat", "Luminous")>>]

\* the mock weather (its Korean texts in English)
MOCK_WEATHER ==
    [location |-> "Seoul", temperature |-> 5, condition |-> "clear",
     humidity |-> 45, wind_speed |-> "3.2"]

\* the names execute() matches on
BoundTools == {"get_schedule", "send_fan_letter", "recommend_song", "get_weather"}

\* the Korean text of the f-string of the `case _` branch, romanised
UnknownToolPrefix == "al su eomneun Tool: "

\* the Korean `message` texts of the envelopes, in English
NoScheduleMessage == "no schedule in this period"
LetterSentMessage == "fan letter delivered"

\* what str(e) gives for the exception of a failed storage write
WriteError == "storage write failed"

\* the tool names, arguments and identities execute() is called with
ExecutorTools == BoundTools \cup {"unknown_tool", "get_Schedule"}
MoodArgs == {[mood |-> m] : m \in DOMAIN LUMI_SONGS \cup {"angry"}}
LetterArgs == {[category |-> "cheer", message |-> "hi"], [message |-> "hi"]}
ScheduleArgs == {[start_date |-> "d1", end_date |-> "d2", event_type |-> "all"]}
ExecutorArgs == {EmptyDict} \cup MoodArgs \cup LetterArgs \cup ScheduleArgs
ExecutorSessions == {"s1"}
UserIds == {None, "u1"}

\* what the Supabase query of get_schedules does: the rows, or an exception
SupabaseReads ==
    {[ok |-> TRUE, data |-> <<>>],
     [ok |-> TRUE, data |-> <<[title |-> "live", event_type |-> "broadcast"]>>],
     [ok |-> FALSE, data |-> <<>>]}

\* dict.get(key, default)
GetOr(d, k, default) == IF k \in DOMAIN d THEN d[k] ELSE default

\* the outcome of a coroutine: the value it returned / the exception it raised
Returned(value) == [raised |-> FALSE, value |-> value]
Raised(e) == [raised |-> TRUE, value |-> [error |-> e]]

\* ScheduleRepository.get_schedules: the rows, [] on any exception
get_schedules(response) == IF response.ok THEN response.data ELSE <<>>

\* _get_schedule after the repository returned `schedules`
get_schedule(schedules) ==
    IF schedules = <<>>
    THEN Returned([success |-> TRUE,
                   data |-> [schedules |-> <<>>, message |-> NoScheduleMessage]])
    ELSE Returned([success |-> TRUE,
                   data |-> [schedules |-> schedules, count |-> Len(schedules)]])

\* the row written with the category argument passed on as it came
FanLetterRowNoDefault(args, session_id, user_id) ==
    [session_id |-> session_id, user_id |-> user_id,
     category |-> Get(args, "category"), message |-> GetOr(args, "message", "")]

\* the payload _send_fan_letter hands to FanLetterRepository.create
FanLetterRow(args, session_id, user_id) ==
    [session_id |-> session_id, user_id |-> user_id,
     category |-> GetOr(args, "category", "other"),
     message |-> GetOr(args, "message", "")]

\* FanLetterRepository.create: the generated identifier of the stored row
NewLetterId(table) == Len(table) + 1

\* _send_fan_letter after create returned `letter_id`
send_fan_letter(letter_id) ==
    Returned([success |-> TRUE,
              data |-> [letter_id |-> letter_id, message |-> LetterSentMessage]])

\* the song list looked up with the mood argument ignored
SongsAnyMood(mood) == LUMI_SONGS["happy"]

\* LUMI_SONGS.get(mood, LUMI_SONGS["happy"])
SongsFor(mood) == IF mood \in DOMAIN LUMI_SONGS THEN LUMI_SONGS[mood] ELSE LUMI_SONGS["happy"]

\* _recommend_song: one envelope per song random.choice can pick
recommend_song(args) ==
    LET mood == GetOr(args, "mood", "happy")
        songs == SongsFor(mood)
    IN {Returned([success |-> TRUE, data |-> [song |-> songs[i], mood |-> mood],
                  mock |-> TRUE]) : i \in 1..Len(songs)}

\* _get_weather
get_weather(args) == Returned([success |-> TRUE, data |-> MOCK_WEATHER, mock |-> TRUE])

\* the `case _` branch raising, as the docstring of execute announces
UnknownToolRaises(tool_name) == Raised(UnknownToolPrefix \o tool_name)

\* the `case _` branch of execute
UnknownTool(tool_name) ==
    Returned([success |-> FALSE, error |-> UnknownToolPrefix \o tool_name])

\* the `except Exception as e` branch of execute
ExecuteExcept(e) == Returned([success |-> FALSE, error |-> e])

\* one finished execute call
LogEntry(call, outcome, upstream) ==
    [tool_name |-> call.tool_name, tool_args |-> call.tool_args,
     session_id |-> call.session_id, user_id |-> call.user_id,
     attempts |-> call.attempts, upstream |-> upstream, outcome |-> outcome]

(* --------------------------------------------------------------- Init -- *)
\* the store of a fresh process, and stores earlier turns have left behind
SeedStores ==
    {[k \in {} |-> <<>>],
     [k \in {"s1"} |-> <<HumanMessage("q"), AIMessage("ba")>>]}

Init ==
    /\ SESSION_STORE \in SeedStores
    /\ compiled_graph = (IF DOMAIN SESSION_STORE = {} THEN None ELSE "compiled")
    /\ req = [p \in Procs |-> IdleReq]
    /\ gr = [p \in Procs |-> IdleRun]
    /\ out = [p \in Procs |-> <<>>]
    /\ completed = [s \in SessionIds |->
                        IF s \in DOMAIN SESSION_STORE THEN 1 ELSE 0]
    /\ tcall = IdleCall
    /\ tlog = <<>>
    /\ fan_letters = <<>>

\* a handler task serves one request
CanStart(p) == req[p].pc = "idle"

(* ------------------------------------------ POST /chat/stream ---------- *)
\* chat_stream + the first lines of stream_with_status, up to the loop
StartStream(p) ==
    /\ CanStart(p)
    /\ \E sid \in SessionIds, text \in UserTexts :
        LET session_id == ResolveSession(sid)
            history == StoreGet(SESSION_STORE, session_id)
            new_message == HumanMessage(text)
            initial_state == InitialState(history \o <<new_message>>, session_id, None)
        IN /\ req' = [req EXCEPT ![p] =
                        [pc |-> "astream", mode |-> "stream", session_id |-> session_id,
                         user_id |-> None, new_message |-> new_message,
                         history |-> history, initial_state |-> initial_state,
                         final_response |-> "", final_tool_name |-> None,
                         current_node |-> None,
                         graph |-> get_lumi_graph(compiled_graph)]]
           /\ gr' = [gr EXCEPT ![p] = NewRun(initial_state)]
    /\ compiled_graph' = get_lumi_graph(compiled_graph)
    /\ out' = [out EXCEPT ![p] = <<>>]
    /\ UNCHANGED <<SESSION_STORE, completed>>

\* the loop body run on what one step `s` of the graph put on the stream
Merge(p, s) ==
    LET m == OnEvents(req[p], s.evs)
    IN /\ gr' = [gr EXCEPT ![p] = s.g]
       /\ req' = [req EXCEPT ![p] = m.loc]
       /\ out' = [out EXCEPT ![p] = @ \o EmitAll(m.yields)]
       /\ UNCHANGED <<SESSION_STORE, compiled_graph, completed>>

\* the stream yields a chunk
StreamToken(p) ==
    /\ req[p].pc = "astream"
    /\ \E s \in TokenSteps(gr[p]) : Merge(p, s)

\* the stream yields a node's update
StreamUpdate(p) ==
    /\ req[p].pc = "astream"
    /\ \E s \in NodeSteps(gr[p]) : Merge(p, s)

\* the stream raises and the text accumulated so far is saved all the same
StreamFaultSaving(p) ==
    /\ req[p].pc = "astream"
    /\ \E e \in RunFaults(gr[p]) :
        out' = [out EXCEPT ![p] = @ \o OnException(e)]
    /\ req' = [req EXCEPT ![p].pc = "closed"]
    /\ SESSION_STORE' = SaveTurn(SESSION_STORE, req[p])
    /\ UNCHANGED <<compiled_graph, gr, completed>>

\* the stream raises: generate() reports the error and ends the stream
StreamFault(p) ==
    /\ req[p].pc = "astream"
    /\ \E e \in RunFaults(gr[p]) :
        out' = [out EXCEPT ![p] = @ \o OnException(e)]
    /\ req' = [req EXCEPT ![p].pc = "closed"]
    /\ UNCHANGED <<SESSION_STORE, compiled_graph, gr, completed>>

\* the stream is exhausted: save the turn, yield the final tuple
StreamFinish(p) ==
    /\ req[p].pc = "astream"
    /\ gr[p].node = END
    /\ SESSION_STORE' = SaveTurn(SESSION_STORE, req[p])
    /\ out' = [out EXCEPT ![p] =
                @ \o Emit(Yield(None, None, req[p].final_response,
                                req[p].final_tool_name))]
    /\ req' = [req EXCEPT ![p].pc = "final"]
    /\ completed' = [completed EXCEPT ![req[p].session_id] = @ + 1]
    /\ UNCHANGED <<compiled_graph, gr>>

\* stream_with_status has returned: generate() ends the stream
StreamDone(p) ==
    /\ req[p].pc = "final"
    /\ out' = [out EXCEPT ![p] = Append(@, StreamEvent("done", None, None, None))]
    /\ req' = [req EXCEPT ![p].pc = "closed"]
    /\ UNCHANGED <<SESSION_STORE, compiled_graph, gr, completed>>

(* ------------------------------------------ POST /chat/ ---------------- *)
HttpOk(message, tool_used) ==
    [type |-> "http", status |-> 200, message |-> message, tool_used |-> tool_used,
     cached |-> FALSE]

HttpError(detail) == [type |-> "http", status |-> 500, detail |-> detail]

\* Steps 1-2 of chat(): the graph and the initial state
StartChat(p) ==
    /\ CanStart(p)
    /\ \E sid \in SessionIds, text \in UserTexts :
        LET new_message == HumanMessage(text)
            initial_state == InitialState(<<new_message>>, sid, None)
        IN /\ req' = [req EXCEPT ![p] =
                        [IdleReq EXCEPT !.pc = "ainvoke", !.mode = "invoke",
                                        !.session_id = sid,
                                        !.new_message = new_message,
                                        !.initial_state = initial_state,
                                        !.graph = get_lumi_graph(compiled_graph)]]
           /\ gr' = [gr EXCEPT ![p] = NewRun(initial_state)]
    /\ compiled_graph' = get_lumi_graph(compiled_graph)
    /\ out' = [out EXCEPT ![p] = <<>>]
    /\ UNCHANGED <<SESSION_STORE, completed>>

\* Step 4 of chat(): the reply is the last message of the final state
ChatResponse(final_state) ==
    IF Len(final_state.messages) < 2
    THEN HttpError("no response message")
    ELSE HttpOk(final_state.messages[Len(final_state.messages)].content,
                Get(final_state, "tool_name"))

\* await graph.ainvoke(initial_state) returns the final state: the handler
\* touches nothing shared while the run advances, so the run is one step
ChatReturn(p) ==
    /\ req[p].pc = "ainvoke"
    /\ \E g \in CompleteRuns(gr[p]) :
        /\ gr' = [gr EXCEPT ![p] = g]
        /\ out' = [out EXCEPT ![p] =
                    <<ChatResponse(RunResult(req[p].initial_state, g.src))>>]
    /\ req' = [req EXCEPT ![p].pc = "closed"]
    /\ UNCHANGED <<SESSION_STORE, compiled_graph, completed>>

\* ainvoke raises somewhere along the run: HTTPException(500)
ChatFault(p) ==
    /\ req[p].pc = "ainvoke"
    /\ \E g \in PartialRuns(gr[p]) : \E e \in RunFaults(g) :
        out' = [out EXCEPT ![p] = <<HttpError(e)>>]
    /\ req' = [req EXCEPT ![p].pc = "closed"]
    /\ UNCHANGED <<SESSION_STORE, compiled_graph, gr, completed>>

(* --------------------------------------------------------------- Next -- *)
Step(p) ==
    \/ StartStream(p)
    \/ StreamToken(p)
    \/ StreamUpdate(p)
    \/ StreamFault(p)
    \/ StreamFinish(p)
    \/ StreamDone(p)
    \/ StartChat(p)
    \/ ChatReturn(p)
    \/ ChatFault(p)

\* one request, served by one handler task
Next == (\E p \in Solo : Step(p)) /\ UNCHANGED tool_vars

Spec == Init /\ [][Next]_vars

\* the steps of one streaming request
LiveStep(p) ==
    \/ StartStream(p)
    \/ StreamToken(p)
    \/ StreamUpdate(p)
    \/ StreamFault(p)
    \/ StreamFinish(p)
    \/ StreamDone(p)

LiveNext == (\E p \in Solo : LiveStep(p)) /\ UNCHANGED tool_vars

\* a node that was started returns: its model call ends its token sequence
Fairness == \A p \in Solo : WF_vars(StreamUpdate(p) /\ UNCHANGED tool_vars)

SpecLive == Init /\ [][LiveNext]_vars /\ Fairness

(* ------------------------------ concurrent POST /chat/stream requests -- *)
\* "messages"-mode events of one run when two requests are in flight
MaxConcToks == 1

\* the intents Router resolves when two requests are in flight
ConcIntents == {"chat"}

\* the stream of one of two in-flight requests yields a chunk
ConcToken(p) ==
    /\ CountMessages(gr[p].src) < MaxConcToks
    /\ StreamToken(p)

\* the stream of one of two in-flight requests yields a node's update
ConcUpdate(p) ==
    /\ req[p].pc = "astream"
    /\ \E s \in NodeSteps(gr[p]) :
        /\ s.g.state.intent \in ConcIntents
        /\ Merge(p, s)

\* every await / yield of stream_with_status and generate() is a point where
\* the event loop may run the other request's task
ConcStep(p) ==
    \/ StartStream(p)
    \/ ConcToken(p)
    \/ ConcUpdate(p)
    \/ StreamFault(p)
    \/ StreamFinish(p)
    \/ StreamDone(p)

\* two requests, each served by its own handler task on the one event loop
ConcNext == (\E p \in Procs : ConcStep(p)) /\ UNCHANGED tool_vars

SpecConcurrent == Init /\ [][ConcNext]_vars

(* ------------- streaming and non-streaming requests, two in flight ----- *)
RECURSIVE ConcRuns(_)
\* every point a run of one of two in-flight requests can get to
ConcRuns(g) ==
    {g} \cup UNION {ConcRuns(s.g) :
                     s \in {t \in TokenSteps(g) : CountMessages(t.g.src) <= MaxConcToks}
                           \cup {u \in NodeSteps(g) : u.g.state.intent \in ConcIntents}}

\* await graph.ainvoke(initial_state) of one of two in-flight requests returns
MixedChatReturn(p) ==
    /\ req[p].pc = "ainvoke"
    /\ \E g \in {r \in ConcRuns(gr[p]) : r.node = END} :
        /\ gr' = [gr EXCEPT ![p] = g]
        /\ out' = [out EXCEPT ![p] =
                    <<ChatResponse(RunResult(req[p].initial_state, g.src))>>]
    /\ req' = [req EXCEPT ![p].pc = "closed"]
    /\ UNCHANGED <<SESSION_STORE, compiled_graph, completed>>

\* ainvoke of one of two in-flight requests raises: HTTPException(500)
MixedChatFault(p) ==
    /\ req[p].pc = "ainvoke"
    /\ \E g \in ConcRuns(gr[p]) : \E e \in RunFaults(g) :
        out' = [out EXCEPT ![p] = <<HttpError(e)>>]
    /\ req' = [req EXCEPT ![p].pc = "closed"]
    /\ UNCHANGED <<SESSION_STORE, compiled_graph, gr, completed>>

MixedStep(p) ==
    \/ StartStream(p)
    \/ ConcToken(p)
    \/ ConcUpdate(p)
    \/ StreamFault(p)
    \/ StreamFinish(p)
    \/ StreamDone(p)
    \/ StartChat(p)
    \/ MixedChatReturn(p)
    \/ MixedChatFault(p)

MixedNext == (\E p \in Procs : MixedStep(p)) /\ UNCHANGED tool_vars

SpecMixed == Init /\ [][MixedNext]_vars

(* ------------------------------------------ ToolExecutor.execute ------- *)
\* execute calls made on one ToolExecutor, one after the other
MaxCalls == 2

CanExecute == tcall.pc = "idle" /\ Len(tlog) < MaxCalls

\* the coroutine of a call that has just been entered
NewCall(tool_name, tool_args, session_id, user_id) ==
    [pc |-> "match", tool_name |-> tool_name, tool_args |-> tool_args,
     session_id |-> session_id, user_id |-> user_id, attempts |-> 0]

\* execute returns (or raises) `outcome`
Finish(call, outcome, upstream) ==
    /\ tlog' = Append(tlog, LogEntry(call, outcome, upstream))
    /\ tcall' = IdleCall

\* case "get_schedule": _get_schedule up to its await on the repository
ExecuteGetSchedule ==
    /\ CanExecute
    /\ \E args \in ScheduleArgs \cup {EmptyDict}, sid \in ExecutorSessions :
        tcall' = [NewCall("get_schedule", args, sid, None) EXCEPT !.pc = "get_schedules"]
    /\ UNCHANGED <<tlog, fan_letters>>

\* the repository answers: the rows, or [] when the query raised
ScheduleRead ==
    /\ tcall.pc = "get_schedules"
    /\ \E response \in SupabaseReads :
        Finish(tcall, get_schedule(get_schedules(response)),
               IF response.ok THEN "ok" ELSE "failed")
    /\ UNCHANGED fan_letters

\* case "send_fan_letter": _send_fan_letter up to its await on create
ExecuteSendFanLetter ==
    /\ CanExecute
    /\ \E args \in LetterArgs \cup {EmptyDict}, sid \in ExecutorSessions, uid \in UserIds :
        tcall' = [NewCall("send_fan_letter", args, sid, uid)
                    EXCEPT !.pc = "create", !.attempts = @ + 1]
    /\ UNCHANGED <<tlog, fan_letters>>

\* create stored the row and returned its identifier
FanLetterCreated ==
    /\ tcall.pc = "create"
    /\ LET letter_id == NewLetterId(fan_letters)
       IN /\ fan_letters' =
                Append(fan_letters,
                       [id |-> letter_id,
                        row |-> FanLetterRow(tcall.tool_args, tcall.session_id,
                                             tcall.user_id)])
          /\ Finish(tcall, send_fan_letter(letter_id), "ok")

\* create raised: the except branch of execute answers
FanLetterFailed ==
    /\ tcall.pc = "create"
    /\ Finish(tcall, ExecuteExcept(WriteError), "failed")
    /\ UNCHANGED fan_letters

\* case "recommend_song"
ExecuteRecommendSong ==
    /\ CanExecute
    /\ \E args \in MoodArgs \cup {EmptyDict}, sid \in ExecutorSessions :
        \E outcome \in recommend_song(args) :
            Finish(NewCall("recommend_song", args, sid, None), outcome, "none")
    /\ UNCHANGED fan_letters

\* case "get_weather"
ExecuteGetWeather ==
    /\ CanExecute
    /\ \E args \in {EmptyDict}, sid \in ExecutorSessions :
        Finish(NewCall("get_weather", args, sid, None), get_weather(args), "none")
    /\ UNCHANGED fan_letters

\* case _
ExecuteUnknown ==
    /\ CanExecute
    /\ \E tool_name \in ExecutorTools \ BoundTools, args \in ExecutorArgs,
          sid \in ExecutorSessions :
        Finish(NewCall(tool_name, args, sid, None), UnknownTool(tool_name), "none")
    /\ UNCHANGED fan_letters

ToolStep ==
    \/ ExecuteGetSchedule
    \/ ScheduleRead
    \/ ExecuteSendFanLetter
    \/ FanLetterCreated
    \/ FanLetterFailed
    \/ ExecuteRecommendSong
    \/ ExecuteGetWeather
    \/ ExecuteUnknown

ToolNext == ToolStep /\ UNCHANGED chat_vars

SpecTools == Init /\ [][ToolNext]_vars

(* ------------------------------------------------------------- claims -- *)
IsPrefix(a, b) == Len(a) <= Len(b) /\ a = SubSeq(b, 1, Len(a))

Last(q) == q[Len(q)]

RECURSIVE Executed(_)
\* the nodes that completed, in order: one "updates" event each
Executed(src) ==
    IF src = <<>> THEN <<>>
    ELSE (IF Head(src).mode = "updates" THEN <<Head(src).node>> ELSE <<>>)
         \o Executed(Tail(src))

CountOf(q, x) == Cardinality({i \in 1..Len(q) : q[i] = x})

CountType(events, t) == Cardinality({i \in 1..Len(events) : events[i].type = t})

ExpectedPath(intent) ==
    CASE intent = "rag" -> <<"router", "rag", "response">>
      [] intent = "tool" -> <<"router", "tool", "response">>
      [] intent = "chat" -> <<"router", "response">>

RunEnded(p) == req[p].pc # "idle" /\ gr[p].node = END

\* C1: once Router has set intent to chat, rag or tool, the nodes a run enters
\* and the nodes it completes are a prefix of the one sequence of that intent
\* ([router, rag, response], [router, tool, response], [router, response]),
\* and a run that reached END executed exactly that sequence.
C1_NodeSequence ==
    \A p \in Procs :
        (req[p].pc # "idle" /\ gr[p].state.intent \in Intents) =>
            /\ IsPrefix(gr[p].path, ExpectedPath(gr[p].state.intent))
            /\ IsPrefix(Executed(gr[p].src), gr[p].path)
            /\ gr[p].node = END =>
                   Executed(gr[p].src) = ExpectedPath(gr[p].state.intent)

C1_Witness ==
    \E p \in Procs :
        /\ RunEnded(p)
        /\ gr[p].state.intent = "tool"
        /\ Executed(gr[p].src) = <<"router", "tool", "response">>

\* C2: in every run that reached END, on whichever path, Responder executed
\* exactly once and messages is the initial messages followed by exactly one
\* assistant message; the non-streaming endpoint then answers with it.
C2_OneAssistantMessage ==
    \A p \in Procs :
        RunEnded(p) =>
            LET init == req[p].initial_state.messages
                msgs == gr[p].state.messages
            IN /\ CountOf(Executed(gr[p].src), "response") = 1
               /\ Len(msgs) = Len(init) + 1
               /\ SubSeq(msgs, 1, Len(init)) = init
               /\ Last(msgs).type = "ai"
               /\ (req[p].mode = "invoke" /\ req[p].pc = "closed") =>
                      out[p] = <<HttpOk(Last(msgs).content, gr[p].state.tool_name)>>

C2_Witness ==
    \E p \in Procs :
        /\ RunEnded(p)
        /\ req[p].mode = "invoke"
        /\ req[p].pc = "closed"
        /\ gr[p].state.intent = "rag"
        /\ Len(gr[p].state.messages) = 2

IsStream(p) == req[p].mode = "stream"

\* the astream of p's streaming run ended normally (no exception reached generate)
Completed(p) == IsStream(p) /\ req[p].pc \in {"final", "closed"} /\ gr[p].node = END
                /\ CountType(out[p], "error") = 0

RECURSIVE Concat(_)
Concat(texts) == IF texts = <<>> THEN "" ELSE Head(texts) \o Concat(Tail(texts))

RECURSIVE TokenTexts(_)
\* the text of the token events of a stream, in emission order
TokenTexts(events) ==
    IF events = <<>> THEN <<>>
    ELSE (IF Head(events).type = "token" THEN <<Head(events).content>> ELSE <<>>)
         \o TokenTexts(Tail(events))

RECURSIVE ResponderMessages(_)
\* the messages-mode source events whose originating node is response
ResponderMessages(src) ==
    IF src = <<>> THEN <<>>
    ELSE (IF Head(src).mode = "messages" /\ Head(src).node = "response"
          THEN <<Head(src).msg>> ELSE <<>>)
         \o ResponderMessages(Tail(src))

RECURSIVE Contents(_)
Contents(msgs) ==
    IF msgs = <<>> THEN <<>> ELSE <<Head(msgs).content>> \o Contents(Tail(msgs))

RECURSIVE NonEmptyChunks(_)
NonEmptyChunks(msgs) ==
    IF msgs = <<>> THEN <<>>
    ELSE (IF IsChunk(Head(msgs)) /\ Head(msgs).content # "" THEN <<Head(msgs)>>
          ELSE <<>>)
         \o NonEmptyChunks(Tail(msgs))

\* C3 (as claimed): every session's history is exactly two messages per
\* streaming run of that session that completed without error, whatever text
\* the runs generated.
C3_TwoPerCompletedRun ==
    \A s \in SessionIds : Len(StoreGet(SESSION_STORE, s)) = 2 * completed[s]

\* C4: a stream never holds more than one done event, a done event is the
\* last event and closes the stream, and every closed stream, ended normally
\* or by a fault at any point, holds exactly one.
C4_OneDoneLast ==
    \A p \in Procs :
        IsStream(p) =>
            /\ CountType(out[p], "done") <= 1
            /\ \A i \in 1..Len(out[p]) :
                   out[p][i].type = "done" => i = Len(out[p]) /\ req[p].pc = "closed"
            /\ req[p].pc = "closed" =>
                   CountType(out[p], "done") = 1 /\ Last(out[p]).type = "done"

C4_Witness ==
    \E p \in Procs :
        /\ IsStream(p)
        /\ req[p].pc = "closed"
        /\ CountType(out[p], "error") = 1
        /\ CountType(out[p], "token") = 2
        /\ Last(out[p]).type = "done"

\* C5 (as claimed): a stream whose graph run completed without error holds
\* exactly one response event, carrying the accumulated text and the tool
\* name the merger resolved, whatever text was accumulated.
C5_OneFinalEvent ==
    \A p \in Procs :
        Completed(p) =>
            /\ CountType(out[p], "response") = 1
            /\ \A i \in 1..Len(out[p]) :
                   out[p][i].type = "response" =>
                       /\ out[p][i].content = req[p].final_response
                       /\ out[p][i].tool_used = req[p].final_tool_name

\* C6: in every stream, a response event comes after every thinking and token
\* event, nothing but the done marker follows it, and the done marker follows
\* it at once.
C6_FinalThenDone ==
    \A p \in Procs :
        IsStream(p) =>
            \A i \in 1..Len(out[p]) :
                out[p][i].type = "response" =>
                    /\ \A j \in 1..Len(out[p]) :
                           out[p][j].type \in {"thinking", "token"} => j < i
                    /\ \/ i = Len(out[p]) /\ req[p].pc = "final"
                       \/ /\ i + 1 = Len(out[p])
                          /\ out[p][i + 1].type = "done"
                          /\ req[p].pc = "closed"

C6_Witness ==
    \E p \in Procs :
        /\ IsStream(p)
        /\ req[p].pc = "closed"
        /\ Len(out[p]) >= 5
        /\ out[p][Len(out[p]) - 1].type = "response"
        /\ CountType(out[p], "token") >= 2
        /\ CountType(out[p], "thinking") >= 2

RECURSIVE Chunks(_)
Chunks(msgs) ==
    IF msgs = <<>> THEN <<>>
    ELSE (IF IsChunk(Head(msgs)) THEN <<Head(msgs)>> ELSE <<>>) \o Chunks(Tail(msgs))

HasSource(src, node, content) ==
    \E i \in 1..Len(src) :
        /\ src[i].mode = "messages"
        /\ src[i].node = node
        /\ IsChunk(src[i].msg)
        /\ src[i].msg.content = content

\* C7: a stream holds at most one error event; an error event is followed at
\* once by the done marker, which ends the stream, and no response event comes
\* after it; and a stream that leaves the merge loop by a fault has emitted
\* exactly that error event and the done marker.
C7_ErrorThenDone ==
    /\ [](\A p \in Procs :
            IsStream(p) =>
                /\ CountType(out[p], "error") <= 1
                /\ \A i \in 1..Len(out[p]) :
                       out[p][i].type = "error" =>
                           /\ Len(out[p]) = i + 1
                           /\ out[p][i + 1].type = "done"
                           /\ \A j \in (i + 1)..Len(out[p]) :
                                  out[p][j].type # "response")
    /\ [][\A p \in Procs :
            (req[p].pc = "astream" /\ req'[p].pc = "closed") =>
                /\ Len(out'[p]) = Len(out[p]) + 2
                /\ SubSeq(out'[p], 1, Len(out[p])) = out[p]
                /\ out'[p][Len(out[p]) + 1].type = "error"
                /\ out'[p][Len(out[p]) + 2].type = "done"]_vars

C7_Witness ==
    \E p \in Procs :
        /\ IsStream(p)
        /\ req[p].pc = "closed"
        /\ req[p].final_response = "ab"
        /\ CountType(out[p], "error") = 1
        /\ CountType(out[p], "response") = 0

\* C8 (as claimed): every chunk the token source emits for the response node
\* yields exactly one token event carrying its fragment, in arrival order.
C8_EveryResponderToken ==
    \A p \in Procs :
        IsStream(p) =>
            TokenTexts(out[p]) = Contents(Chunks(ResponderMessages(gr[p].src)))

\* C8 (amended): the token events of a stream are exactly the non-empty
\* AIMessageChunk fragments the response node emitted, one event each, in
\* arrival order, and the accumulated text is their concatenation: an empty
\* fragment, a message that is no chunk, and any event of another node yield
\* no token event and leave the accumulated text unchanged.
C8_NonEmptyResponderTokens ==
    \A p \in Procs :
        IsStream(p) =>
            LET frags == Contents(NonEmptyChunks(ResponderMessages(gr[p].src)))
            IN /\ TokenTexts(out[p]) = frags
               /\ req[p].final_response = Concat(frags)

C8_Witness ==
    \E p \in Procs :
        /\ IsStream(p)
        /\ HasSource(gr[p].src, "router", "b")
        /\ HasSource(gr[p].src, "response", "")
        /\ TokenTexts(out[p]) = <<"a">>

\* C9: at the end of every completed streaming run, the text of every response
\* event and the assistant message stored for the turn equal the concatenation,
\* in emission order, of the texts of the token events of the stream; both
\* exist whenever a token event was emitted.
C9_FinalIsConcatenation ==
    \A p \in Procs :
        Completed(p) =>
            LET text == Concat(TokenTexts(out[p]))
                sid == req[p].session_id
                stored == StoreGet(SESSION_STORE, sid)
                n == Len(req[p].history)
            IN /\ \A i \in 1..Len(out[p]) :
                      out[p][i].type = "response" => out[p][i].content = text
               /\ Len(stored) > n =>
                      SubSeq(stored, n + 1, Len(stored))
                          = <<req[p].new_message, AIMessage(text)>>
               /\ text # "" =>
                      CountType(out[p], "response") = 1 /\ Len(stored) = n + 2

C9_Witness ==
    \E p \in Procs :
        /\ Completed(p)
        /\ TokenTexts(out[p]) = <<"b", "a">>
        /\ CountType(out[p], "response") = 1
        /\ Last(StoreGet(SESSION_STORE, req[p].session_id)) = AIMessage("ba")

C11_SeededWithHistory ==
    [][\A p \in Procs :
        (req[p].pc = "idle" /\ req'[p].pc # "idle") =>
            /\ req'[p].initial_state =
                 InitialState(StoreGet(SESSION_STORE, req'[p].session_id)
                                  \o <<req'[p].new_message>>,
                              req'[p].session_id, req'[p].user_id)
            /\ gr'[p].state = req'[p].initial_state]_vars

\* a history made of whole turns: user message, assistant reply, alternating
Paired(h) ==
    /\ Len(h) % 2 = 0
    /\ \A i \in 1..Len(h) : h[i].type = (IF i % 2 = 1 THEN "human" ELSE "ai")

\* the pair of messages p's turn stores
TurnPair(p) == <<req[p].new_message, AIMessage(req[p].final_response)>>

\* p's streaming run ended normally and its turn was stored
Saved(p) == Completed(p) /\ req[p].final_response # ""

\* C12: under every interleaving of two streaming requests, every history a
\* run reads and every stored history is made of whole (user, assistant)
\* pairs; a history changes only by one step of a run of that same session,
\* which appends that run's user message and reply together; and a run reads
\* the history of its own session.
C12_AtomicPair ==
    /\ [](\A p \in Procs : IsStream(p) => Paired(req[p].history))
    /\ [](\A s \in SessionIds : Paired(StoreGet(SESSION_STORE, s)))
    /\ [][\A s \in SessionIds :
            StoreGet(SESSION_STORE', s) # StoreGet(SESSION_STORE, s) =>
                \E p \in Procs :
                    /\ req[p].session_id = s
                    /\ req[p].pc = "astream" /\ req'[p].pc = "final"
                    /\ StoreGet(SESSION_STORE', s)
                         = StoreGet(SESSION_STORE, s) \o TurnPair(p)]_vars
    /\ [][\A p \in Procs :
            (req[p].pc = "idle" /\ req'[p].pc = "astream") =>
                req'[p].history = StoreGet(SESSION_STORE, req'[p].session_id)]_vars

\* a run reads its session's history while the run that stored the last pair
\* is still suspended at its final yield
C12_Witness ==
    \E p, q \in Procs :
        /\ p # q
        /\ req[p].session_id = req[q].session_id
        /\ req[p].pc = "final" /\ req[p].final_response # ""
        /\ req[q].pc = "astream"
        /\ req[q].history = req[p].history \o TurnPair(p)
        /\ \E s \in SessionIds \ {req[p].session_id} :
               StoreGet(SESSION_STORE, s) = <<>>

\* C13 (as claimed): of any two streaming runs of one session that stored
\* their pair, one was seeded with a history that already held the other's.
C13_SameSessionSerialized ==
    \A p, q \in Procs :
        (p # q /\ Saved(p) /\ Saved(q)
             /\ req[p].session_id = req[q].session_id) =>
            \/ IsPrefix(req[p].history \o TurnPair(p), req[q].history)
            \/ IsPrefix(req[q].history \o TurnPair(q), req[p].history)

\* the finished execute calls of one tool
CallsOf(tool_name) == {i \in 1..Len(tlog) : tlog[i].tool_name = tool_name}

\* the finished execute calls whose tool_name no case of the match names
UnknownCalls == {i \in 1..Len(tlog) : tlog[i].tool_name \notin BoundTools}

C15_UpstreamFailureSurfaces ==
    \A i \in CallsOf("get_schedule") \cup CallsOf("send_fan_letter") :
        tlog[i].upstream = "failed" =>
            /\ ~tlog[i].outcome.raised
            /\ tlog[i].outcome.value.success = FALSE
            /\ "error" \in DOMAIN tlog[i].outcome.value

\* the rows of the table a call could have written: those with its identifier
RowsWithId(letter_id) == {k \in 1..Len(fan_letters) : fan_letters[k].id = letter_id}

\* C16: every send_fan_letter call attempts the write exactly once; the table
\* holds one row per call whose write succeeded and none for a failed one; a
\* successful call returns success=true with the identifier of the row it
\* wrote, and that row carries the call's category, "other" when the argument
\* is missing.
C16_OneWrite ==
    /\ tcall.pc = "create" => tcall.attempts = 1
    /\ Len(fan_letters) =
         Cardinality({i \in CallsOf("send_fan_letter") : tlog[i].upstream = "ok"})
    /\ \A i \in CallsOf("send_fan_letter") :
        /\ tlog[i].attempts = 1
        /\ ~tlog[i].outcome.raised
        /\ tlog[i].upstream = "failed" => tlog[i].outcome.value.success = FALSE
        /\ tlog[i].upstream = "ok" =>
            LET v == tlog[i].outcome.value
                args == tlog[i].tool_args
            IN /\ v.success = TRUE
               /\ Cardinality(RowsWithId(v.data.letter_id)) = 1
               /\ \A k \in RowsWithId(v.data.letter_id) :
                      /\ fan_letters[k].row.session_id = tlog[i].session_id
                      /\ fan_letters[k].row.user_id = tlog[i].user_id
                      /\ fan_letters[k].row.category =
                            (IF "category" \in DOMAIN args THEN args.category
                             ELSE "other")

C16_Witness ==
    \E i, j \in CallsOf("send_fan_letter") :
        /\ i < j
        /\ tlog[i].upstream = "failed"
        /\ tlog[j].upstream = "ok"
        /\ "category" \notin DOMAIN tlog[j].tool_args
        /\ Len(fan_letters) = 1
        /\ fan_letters[1].row.category = "other"

\* the songs of one mood, as a set
SongSet(mood) == {LUMI_SONGS[mood][k] : k \in 1..Len(LUMI_SONGS[mood])}

\* C19: every recommend_song call returns, without raising, success=true and
\* mock=true; for a mood that is a key of the song table the song is one of
\* that mood's entries, and without a mood argument the song is one of the
\* "happy" entries and data.mood is "happy".
C19_SongOfMood ==
    \A i \in CallsOf("recommend_song") :
        LET v == tlog[i].outcome.value
            args == tlog[i].tool_args
        IN /\ ~tlog[i].outcome.raised
           /\ v.success = TRUE
           /\ v.mock = TRUE
           /\ ("mood" \in DOMAIN args /\ args.mood \in DOMAIN LUMI_SONGS) =>
                  v.data.song \in SongSet(args.mood) /\ v.data.mood = args.mood
           /\ "mood" \notin DOMAIN args =>
                  v.data.song \in SongSet("happy") /\ v.data.mood = "happy"

C19_Witness ==
    \E i, j \in CallsOf("recommend_song") :
        /\ tlog[i].tool_args = [mood |-> "sad"]
        /\ tlog[i].outcome.value.data.song = Song("Missing You", "Luminous")
        /\ tlog[j].tool_args = EmptyDict
        /\ tlog[j].outcome.value.data.song = Song("Dancing Star", "First Light")

\* C17: a run whose intent is unresolved has not left Router and never enters
\* Responder; the step by which a streaming request ends on the routing error
\* appends exactly an error event and the done marker, the stream holds no
\* response event, and the session's history is what the run was seeded with.
C17_RoutingFailureFatal ==
    /\ [](\A p \in Procs :
            (req[p].pc # "idle" /\ gr[p].state.intent = None) =>
                /\ gr[p].node = "router"
                /\ gr[p].path = <<"router">>
                /\ Executed(gr[p].src) = <<>>)
    /\ [][\A p \in Procs :
            (/\ IsStream(p) /\ req[p].pc = "astream" /\ req'[p].pc = "closed"
             /\ Len(out'[p]) > Len(out[p])
             /\ out'[p][Len(out[p]) + 1].error = "no route") =>
                /\ gr[p].state.intent = None
                /\ out'[p] = out[p] \o <<StreamEvent("error", None, None, "no route"),
                                          StreamEvent("done", None, None, None)>>
                /\ CountType(out'[p], "response") = 0
                /\ CountType(out'[p], "token") = 0
                /\ SESSION_STORE' = SESSION_STORE
                /\ StoreGet(SESSION_STORE', req[p].session_id) = req[p].history]_vars

C17_Witness ==
    \E p \in Procs :
        /\ IsStream(p)
        /\ req[p].pc = "closed"
        /\ HasSource(gr[p].src, "router", "b")
        /\ out[p] = <<StreamEvent("error", None, None, "no route"),
                      StreamEvent("done", None, None, None)>>
        /\ Len(StoreGet(SESSION_STORE, req[p].session_id)) = 2

\* C18 (as claimed): the tool_used of every response event of a completed
\* streaming run is the tool_name of the run's final state, which is what the
\* non-streaming endpoint reports for that run.
C18_ToolUsedIsFinalToolName ==
    \A p \in Procs :
        Completed(p) =>
            LET final_state == RunResult(req[p].initial_state, gr[p].src)
            IN \A i \in 1..Len(out[p]) :
                   out[p][i].type = "response" =>
                       /\ out[p][i].tool_used = final_state.tool_name
                       /\ out[p][i].tool_used = ChatResponse(final_state).tool_used

RECURSIVE Labels(_)
\* the progress labels of a sequence of nodes
Labels(nodes) ==
    IF nodes = <<>> THEN <<>> ELSE <<node_status[Head(nodes)]>> \o Labels(Tail(nodes))

RECURSIVE StatusTexts(_)
\* the labels of the status events of a stream, in emission order
StatusTexts(events) ==
    IF events = <<>> THEN <<>>
    ELSE (IF Head(events).type = "thinking" THEN <<Head(events).content>> ELSE <<>>)
         \o StatusTexts(Tail(events))

\* C20: for every current_node and every lifecycle event, the merger yields
\* the fixed label of the event's node and sets current_node to it when the
\* node differs from current_node and is one of the four, and otherwise yields
\* nothing and keeps current_node; in every stream the status events are, in
\* order, the labels of the nodes whose lifecycle event arrived, current_node
\* is the node of the last one (unset before the first), and no node has more
\* than one status event.
C20_StatusPerNode ==
    /\ \A c \in Nodes \cup {None}, n \in Nodes \cup {"__interrupt__"} :
        LET r == OnUpdates([IdleReq EXCEPT !.current_node = c],
                           UpdatesEvent(n, EmptyDict))
        IN IF n # c /\ n \in Nodes
           THEN /\ r.yields = <<Yield(node_status[n], None, None, None)>>
                /\ r.loc.current_node = n
           ELSE /\ r.yields = <<>>
                /\ r.loc.current_node = c
    /\ \A p \in Procs :
        IsStream(p) =>
            LET nodes == Executed(gr[p].src)
            IN /\ StatusTexts(out[p]) = Labels(nodes)
               /\ req[p].current_node = (IF nodes = <<>> THEN None ELSE Last(nodes))
               /\ \A n \in Nodes : CountOf(StatusTexts(out[p]), node_status[n]) <= 1
               /\ \A n \in Nodes : CountOf(nodes, n) <= 1

C20_Witness ==
    \E p \in Procs :
        /\ IsStream(p)
        /\ req[p].current_node = "response"
        /\ StatusTexts(out[p]) =
             <<node_status["router"], node_status["tool"], node_status["response"]>>
        /\ CountType(out[p], "token") = 2

\* C21 (as claimed): in every stream, the status event of the response node
\* comes before the first token event.
C21_ResponderStatusBeforeTokens ==
    \A p \in Procs :
        IsStream(p) =>
            \A i \in 1..Len(out[p]) :
                out[p][i].type = "token" =>
                    \E j \in 1..(i - 1) :
                        /\ out[p][j].type = "thinking"
                        /\ out[p][j].content = node_status["response"]

\* the request of p awaits its graph run
Running(p) == req[p].pc = "astream"

\* no element of q occurs twice
NoRepeat(q) == \A i, j \in 1..Len(q) : q[i] = q[j] => i = j

\* C22 (as claimed): every started run eventually reaches END.
C22_EveryRunReachesEnd ==
    \A p \in Procs : Running(p) ~> (gr[p].node = END)

\* C22 (amended): a run occupies one node of the graph or END at a time,
\* enters no node twice, executes the nodes it entered in order and at most
\* three of them, and is at END exactly when the last node it entered was
\* executed after Router resolved the intent; and every started run
\* eventually reaches END unless it raises, which ends the request.
C22_RunEndsWithinThreeNodes ==
    /\ [](\A p \in Procs :
            req[p].pc # "idle" =>
                /\ gr[p].node \in Nodes \cup {END}
                /\ NoRepeat(gr[p].path)
                /\ Len(gr[p].path) <= 3
                /\ IsPrefix(Executed(gr[p].src), gr[p].path)
                /\ gr[p].node = END <=> Executed(gr[p].src) = gr[p].path
                /\ gr[p].node # END =>
                       /\ Last(gr[p].path) = gr[p].node
                       /\ Len(Executed(gr[p].src)) = Len(gr[p].path) - 1)
    /\ \A p \in Procs :
        Running(p) ~> (gr[p].node = END \/ req[p].pc = "closed")

C22_Witness ==
    \E p \in Procs :
        /\ req[p].pc = "closed"
        /\ gr[p].node = END
        /\ gr[p].path = <<"router", "rag", "response">>
        /\ Executed(gr[p].src) = gr[p].path
        /\ CountMessages(gr[p].src) = MaxToks

\* the state of p's run after the first k events of its stream
StateAfter(p, k) == RunResult(req[p].initial_state, SubSeq(gr[p].src, 1, k))

\* C23: within a run, the messages before any node's update are a prefix of
\* the messages after it, from the initial messages on: every step of a run
\* and every update it applied only added messages at the end.
C23_MessagesAppendOnly ==
    /\ [](\A p \in Procs :
            req[p].pc # "idle" =>
                /\ IsPrefix(req[p].initial_state.messages, gr[p].state.messages)
                /\ \A k \in 1..Len(gr[p].src) :
                       IsPrefix(StateAfter(p, k - 1).messages, StateAfter(p, k).messages)
                /\ StateAfter(p, Len(gr[p].src)) = gr[p].state)
    /\ [][\A p \in Procs :
            (req[p].pc # "idle" /\ req'[p].pc # "idle") =>
                IsPrefix(gr[p].state.messages, gr'[p].state.messages)]_vars

C23_Witness ==
    \E p \in Procs :
        /\ IsStream(p)
        /\ gr[p].node = END
        /\ Len(req[p].history) = 2
        /\ Len(gr[p].state.messages) = 4
        /\ gr[p].state.messages[4] = AIMessage("ab")
        /\ SubSeq(gr[p].state.messages, 1, 2) = req[p].history

\* p's stream was ended by an exception of the graph run
Faulted(p) == IsStream(p) /\ req[p].pc = "closed" /\ CountType(out[p], "error") = 1

\* C24: the step by which an exception of the graph run ends a streaming
\* request changes nothing in the store, and while a streaming run is in
\* flight and after it was ended by an exception the history of its session
\* is exactly the history the run read at its start: neither the user message
\* nor the text accumulated so far is appended, and no key is created.
C24_FaultLeavesStore ==
    /\ [](\A p \in Procs :
            (IsStream(p) /\ req[p].pc = "astream") \/ Faulted(p) =>
                /\ StoreGet(SESSION_STORE, req[p].session_id) = req[p].history
                /\ SESSION_STORE \in SeedStores
                /\ req[p].history = <<>> => req[p].session_id \notin DOMAIN SESSION_STORE)
    /\ [][\A p \in Procs :
            (req[p].pc = "astream" /\ req'[p].pc = "closed") =>
                SESSION_STORE' = SESSION_STORE]_vars

C24_Witness ==
    \E p \in Procs :
        /\ Faulted(p)
        /\ req[p].final_response = "ba"
        /\ TokenTexts(out[p]) = <<"b", "a">>
        /\ gr[p].node = "response"
        /\ Len(req[p].history) = 2
        /\ StoreGet(SESSION_STORE, req[p].session_id) = req[p].history

\* C25: in every state reached by two requests, streaming or non-streaming,
\* interleaved in any way, every stored history has even length and
\* alternates user message, assistant message with no empty assistant text,
\* no key holds an empty history, and every step leaves each history a prefix
\* of what it is afterwards.
C25_HistoryWellFormed ==
    /\ [](\A s \in SessionIds :
            LET h == StoreGet(SESSION_STORE, s)
            IN /\ Paired(h)
               /\ \A i \in 1..Len(h) : h[i].type = "ai" => h[i].content # ""
               /\ s \in DOMAIN SESSION_STORE => h # <<>>)
    /\ [](DOMAIN SESSION_STORE \subseteq SessionIds)
    /\ [][\A s \in SessionIds :
            IsPrefix(StoreGet(SESSION_STORE, s), StoreGet(SESSION_STORE', s))]_vars

C25_Witness ==
    \E p, q \in Procs :
        /\ p # q
        /\ req[p].mode = "invoke" /\ req[p].pc = "closed"
        /\ Saved(q)
        /\ req[p].session_id = req[q].session_id
        /\ Len(req[q].history) = 2
        /\ Len(StoreGet(SESSION_STORE, req[q].session_id)) = 4
        /\ \E s \in SessionIds : s \notin DOMAIN SESSION_STORE

\* C26: the module-level graph is built only while there is none, by a request
\* that is starting, and never replaced afterwards; every request holds the
\* instance the module holds, so all requests hold the same one; and a step of
\* one request's run changes neither the graph nor the run, the locals or the
\* output of another request.
C26_SingletonGraph ==
    /\ [](\A p \in Procs :
            req[p].pc # "idle" =>
                /\ compiled_graph # None
                /\ req[p].graph = compiled_graph)
    /\ [](\A p, q \in Procs :
            (req[p].pc # "idle" /\ req[q].pc # "idle") => req[p].graph = req[q].graph)
    /\ [][compiled_graph' # compiled_graph =>
            /\ compiled_graph = None
            /\ \E p \in Procs : req[p].pc = "idle" /\ req'[p].pc # "idle"]_vars
    /\ [][\A p \in Procs :
            (req[p].pc # "idle" /\ <<req[p], gr[p], out[p]>> # <<req'[p], gr'[p], out'[p]>>) =>
                /\ compiled_graph' = compiled_graph
                /\ \A q \in Procs \ {p} :
                       <<req'[q], gr'[q], out'[q]>> = <<req[q], gr[q], out[q]>>]_vars

C26_Witness ==
    \E p, q \in Procs :
        /\ p # q
        /\ req[p].mode = "stream" /\ req[p].pc = "astream"
        /\ req[q].mode = "invoke" /\ req[q].pc = "closed"
        /\ req[p].graph = req[q].graph
        /\ compiled_graph = req[p].graph
        /\ DOMAIN SESSION_STORE = {}

====
